---- MODULE Spec2Model ----
(***************************************************************************)
(* Model of the field-tracker server: the relational store (users, zones,  *)
(* pois, zone_assignments, poi_tasks) and the request handlers that read   *)
(* and write it.  Every handler is one action; a handler that throws       *)
(* leaves the store as it was and records the error in `last`.             *)
(***************************************************************************)
EXTENDS Integers, Sequences, FiniteSets, TLC

(* ------------------------------ bounds --------------------------------- *)
MaxAssignments == 2
MaxTasks == 2
MaxProgress == 2
MaxTime == 2
\* rows per table where both lifecycles run side by side
MaxLifecycleRows == 1
\* rows of the zones table and of the pois table
MaxZones == 3
MaxPois == 2
\* rows of the users table
MaxUsers == 4
\* requests served statement by statement
MaxRequests == 3

(* --------------------------- value domains ----------------------------- *)
\* a nullable timestamp column holding no value (completed_at)
NULL == 0

\* A nullable text (description): <<>> is null, <<s>> the text s.  An optional
\* field of an input: <<>> when the input has no such field (undefined),
\* <<v>> when it has the value v.
provided(field) == field # <<>>

\* `requests` holds the requests whose handler runs statement by statement,
\* other requests being served between two of its statements: the ones still
\* running and the ones that have returned, in the order they came in.
\* `client` is the state of the web client's App component: the user it is
\* logged in as, its loading flag, the error it shows and, while
\* handleLogin awaits the server, the credentials it has sent.
VARIABLES users, zones, pois, zone_assignments, poi_tasks, now, last, requests,
          client

vars == <<users, zones, pois, zone_assignments, poi_tasks, now, last, requests,
          client>>

\* the state of App when it is mounted: useState(null), useState(false),
\* useState(null), and no call awaited
App == [currentUser |-> <<>>, isLoading |-> FALSE, error |-> <<>>, pending |-> <<>>]

\* The request served last: the handler, its arguments, its outcome ("ok" or
\* the error it threw) and, in `was`, the row it found under the id it was
\* given, as that row was before the request (<<>> when it found none).
Call(op, a, b, res, was) == [op |-> op, a |-> a, b |-> b, res |-> res, was |-> was]

rowBefore(table, id) == IF id \in DOMAIN table THEN <<table[id]>> ELSE <<>>

(* ---------------------------- JSON values ------------------------------ *)
\* A value as JSON.parse gives it: its kind (typeof, with array and null told
\* apart), the string or the number it is, the elements of an array.  Of an
\* object only the members the handlers read are kept: items[1] is its member
\* `type` and items[2] its member `coordinates`, JUndefined when it has none.
JUndefined == [kind |-> "undefined", str |-> "", num |-> 0, items |-> <<>>]
JNull == [kind |-> "null", str |-> "", num |-> 0, items |-> <<>>]
JNumber(n) == [kind |-> "number", str |-> "", num |-> n, items |-> <<>>]
JString(s) == [kind |-> "string", str |-> s, num |-> 0, items |-> <<>>]
JArray(items) == [kind |-> "array", str |-> "", num |-> 0, items |-> items]
JObject(type, coordinates) ==
    [kind |-> "object", str |-> "", num |-> 0, items |-> <<type, coordinates>>]

\* value.key for key "type" or "coordinates"; undefined on a value that is
\* not an object (the caller sees to null, on which the access throws)
member(value, key) ==
    IF value.kind = "object"
    THEN value.items[IF key = "type" THEN 1 ELSE 2]
    ELSE JUndefined

\* !value is false
truthy(value) ==
    CASE value.kind \in {"undefined", "null"} -> FALSE
      [] value.kind = "string" -> value.str # ""
      [] value.kind = "number" -> value.num # 0
      [] OTHER -> TRUE

\* A text is known by whether it is the empty string, whether JSON.parse
\* accepts it, and the value JSON.parse then gives.
stringify(value) == [empty |-> FALSE, json |-> TRUE, parsed |-> value]
EmptyText == [empty |-> TRUE, json |-> FALSE, parsed |-> JUndefined]
MalformedText == [empty |-> FALSE, json |-> FALSE, parsed |-> JUndefined]

\* a ring of coordinate pairs, and the polygon of one or more rings
ringOf(points) ==
    JArray([i \in DOMAIN points |->
               JArray(<<JNumber(points[i][1]), JNumber(points[i][2])>>)])
polygonOf(rings) ==
    JObject(JString("Polygon"), JArray([i \in DOMAIN rings |-> ringOf(rings[i])]))

(* ----------------------- emails and password hashes -------------------- *)
\* An email is known by its letters, written here in lower case, and by the
\* positions of the letters it has in upper case: 'Test@example.com' is
\* capitalised("test@example.com", {1}).
capitalised(letters, capitals) == [letters |-> letters, capitals |-> capitals]
text(letters) == capitalised(letters, {})

\* String.prototype.toLowerCase
toLowerCase(email) == [email EXCEPT !.capitals = {}]

\* A password hash is known by the way it was made.  The hex digest of
\* SHA-256 is 64 hex digits; `${salt}:${derivedKey.toString('hex')}` is 32 hex
\* digits, a colon and 128 hex digits; a text a test writes into the column
\* is neither.  Two hashes made the same way of different passwords or with
\* different salts are taken to differ.
plain(literal) == [scheme |-> "plain", salt |-> "", password |-> literal]
sha256(password) == [scheme |-> "sha256", salt |-> "", password |-> password]
scrypt(password, salt) == [scheme |-> "scrypt", salt |-> salt, password |-> password]

\* The rows the handlers' tests put into the store before they call a
\* handler: an admin and a field user, two zones created by the admin, one
\* POI.  Serial ids are the positions in the table.
TestUsers ==
    <<[email |-> text("admin@example.com"),
       password_hash |-> plain("hashedpassword"),
       role |-> "admin", created_at |-> 1, updated_at |-> 1],
      [email |-> text("test@example.com"),
       password_hash |-> plain("hashedpassword"),
       role |-> "user", created_at |-> 1, updated_at |-> 1]>>

TestZones ==
    <<[name |-> "Test Zone",
       description |-> <<"A test zone for assignment">>,
       geometry |-> stringify(polygonOf(
                       <<<<<<0, 0>>, <<1, 0>>, <<1, 1>>, <<0, 1>>, <<0, 0>>>>>>)),
       estimated_houses |-> 100,
       created_by |-> 1, created_at |-> 1, updated_at |-> 1],
      [name |-> "Test Zone 2",
       description |-> <<"Another test zone">>,
       geometry |-> stringify(polygonOf(
                       <<<<<<2, 2>>, <<3, 2>>, <<3, 3>>, <<2, 3>>, <<2, 2>>>>>>)),
       estimated_houses |-> 150,
       created_by |-> 1, created_at |-> 1, updated_at |-> 1]>>

TestPois ==
    <<[name |-> "Test Billboard",
       description |-> <<"A test billboard location">>,
       latitude |-> 40, longitude |-> -74,
       poi_type |-> "billboard",
       created_by |-> 1, created_at |-> 1, updated_at |-> 1]>>

\* assignment and task ids the clients send: the ids the table can hold, and
\* one id that names no row
AssignmentIds == 1..(MaxAssignments + 1)
TaskIds == 1..(MaxTasks + 1)
ZoneIds == 1..(MaxZones + 1)
PoiIds == 1..(MaxPois + 1)
\* the users of the store, and one id that names no user
UserIds == 1..(Len(TestUsers) + 1)

Init ==
    /\ users = TestUsers
    /\ zones = TestZones
    /\ pois = TestPois
    /\ zone_assignments = <<>>
    /\ poi_tasks = <<>>
    /\ now = 1
    /\ last = Call("none", 0, 0, "ok", <<>>)
    /\ requests = <<>>
    /\ client = App

(* ------------------------------ assignZone ----------------------------- *)
\* the rows of zone_assignments with the given zone_id and status
assignmentsOf(zone_id, status) ==
    {i \in DOMAIN zone_assignments :
        /\ zone_assignments[i].zone_id = zone_id
        /\ zone_assignments[i].status = status}

\* variants of the checks a slip in the handler would give
assignZoneResult_NoInProgressCheck(zone_id, user_id) ==
    IF zone_id \notin DOMAIN zones THEN "ZoneNotFound"
    ELSE IF user_id \notin DOMAIN users THEN "UserNotFound"
    ELSE IF assignmentsOf(zone_id, "assigned") # {} THEN "ZoneAlreadyAssigned"
    ELSE "ok"

assignZoneResult_OtherUserOnly(zone_id, user_id) ==
    IF zone_id \notin DOMAIN zones THEN "ZoneNotFound"
    ELSE IF user_id \notin DOMAIN users THEN "UserNotFound"
    ELSE IF \E i \in assignmentsOf(zone_id, "assigned") :
               zone_assignments[i].user_id # user_id THEN "ZoneAlreadyAssigned"
    ELSE IF \E i \in assignmentsOf(zone_id, "in_progress") :
               zone_assignments[i].user_id # user_id THEN "ZoneInProgress"
    ELSE "ok"

assignZoneResult_AnyStatus(zone_id, user_id) ==
    IF zone_id \notin DOMAIN zones THEN "ZoneNotFound"
    ELSE IF user_id \notin DOMAIN users THEN "UserNotFound"
    ELSE IF \E i \in DOMAIN zone_assignments :
               zone_assignments[i].zone_id = zone_id THEN "ZoneAlreadyAssigned"
    ELSE "ok"

assignZoneResult(zone_id, user_id) ==
    IF zone_id \notin DOMAIN zones THEN "ZoneNotFound"
    ELSE IF user_id \notin DOMAIN users THEN "UserNotFound"
    ELSE IF assignmentsOf(zone_id, "assigned") # {} THEN "ZoneAlreadyAssigned"
    ELSE IF assignmentsOf(zone_id, "in_progress") # {} THEN "ZoneInProgress"
    ELSE "ok"

newAssignment_InProgress(zone_id, user_id) ==
    [zone_id |-> zone_id,
     user_id |-> user_id,
     status |-> "in_progress",
     progress_houses |-> 0,
     assigned_at |-> now,
     completed_at |-> NULL]

\* the row the insert creates: the columns it gives, the defaults of the rest
newAssignment(zone_id, user_id) ==
    [zone_id |-> zone_id,
     user_id |-> user_id,
     status |-> "assigned",
     progress_houses |-> 0,
     assigned_at |-> now,
     completed_at |-> NULL]

assignZone(zone_id, user_id) ==
    LET res == assignZoneResult(zone_id, user_id) IN
    /\ res = "ok" => Len(zone_assignments) < MaxAssignments
    /\ zone_assignments' = IF res = "ok"
                           THEN Append(zone_assignments, newAssignment(zone_id, user_id))
                           ELSE zone_assignments
    /\ last' = Call("assignZone", zone_id, user_id, res, <<>>)
    /\ UNCHANGED <<users, zones, pois, poi_tasks, now, requests, client>>

(* ---------------------------- updateProgress --------------------------- *)
updateProgressResult(assignment_id) ==
    IF assignment_id \notin DOMAIN zone_assignments THEN "AssignmentNotFound"
    ELSE "ok"

newStatus_AlwaysInProgress(currentStatus) == "in_progress"

newStatus(currentStatus) ==
    IF currentStatus = "assigned" THEN "in_progress" ELSE currentStatus

progressUpdate_NeverLess(row, progress_houses) ==
    [row EXCEPT !.progress_houses =
                    IF progress_houses > @ THEN progress_houses ELSE @,
                !.status = newStatus(row.status)]

\* a variant that also clears the date of completion
progressUpdate_ClearsCompletedAt(row, progress_houses) ==
    [row EXCEPT !.progress_houses = progress_houses,
                !.status = newStatus(row.status),
                !.completed_at = NULL]

progressUpdate(row, progress_houses) ==
    [row EXCEPT !.progress_houses = progress_houses,
                !.status = newStatus(row.status)]

updateProgress(assignment_id, progress_houses) ==
    LET res == updateProgressResult(assignment_id) IN
    /\ zone_assignments' =
          IF res = "ok"
          THEN [zone_assignments EXCEPT
                   ![assignment_id] = progressUpdate(@, progress_houses)]
          ELSE zone_assignments
    /\ last' = Call("updateProgress", assignment_id, progress_houses, res,
                    rowBefore(zone_assignments, assignment_id))
    /\ UNCHANGED <<users, zones, pois, poi_tasks, now, requests, client>>

(* ----------------------------- completeZone ---------------------------- *)
completeZoneResult_NoCompletedCheck(assignment_id) ==
    IF assignment_id \notin DOMAIN zone_assignments THEN "AssignmentNotFound"
    ELSE "ok"

completeZoneResult(assignment_id) ==
    IF assignment_id \notin DOMAIN zone_assignments THEN "AssignmentNotFound"
    ELSE IF zone_assignments[assignment_id].status = "completed" THEN "AlreadyCompleted"
    ELSE "ok"

completionUpdate_ResetsProgress(row) ==
    [row EXCEPT !.status = "completed", !.completed_at = now,
                !.progress_houses = 0]

completionUpdate_StatusOnly(row) ==
    [row EXCEPT !.status = "completed"]

completionUpdate(row) ==
    [row EXCEPT !.status = "completed", !.completed_at = now]

completeZone(assignment_id) ==
    LET res == completeZoneResult(assignment_id) IN
    /\ zone_assignments' =
          IF res = "ok"
          THEN [zone_assignments EXCEPT ![assignment_id] = completionUpdate(@)]
          ELSE zone_assignments
    /\ last' = Call("completeZone", assignment_id, 0, res,
                    rowBefore(zone_assignments, assignment_id))
    /\ UNCHANGED <<users, zones, pois, poi_tasks, now, requests, client>>

(* ------------------------------ poi_tasks ------------------------------ *)
\* No handler creates a POI task: rows come into poi_tasks by a direct
\* insert, either with the column defaults (assigned, completed_at null) or
\* already completed at an earlier date.  The foreign keys need the POI and
\* the user to exist.
newPoiTask(poi_id, user_id, status, completed_at) ==
    [poi_id |-> poi_id,
     user_id |-> user_id,
     status |-> status,
     assigned_at |-> now,
     completed_at |-> completed_at]

insertPoiTask(poi_id, user_id, status, completed_at) ==
    /\ Len(poi_tasks) < MaxTasks
    /\ poi_id \in DOMAIN pois
    /\ user_id \in DOMAIN users
    /\ poi_tasks' = Append(poi_tasks, newPoiTask(poi_id, user_id, status, completed_at))
    /\ last' = Call("insertPoiTask", poi_id, user_id, "ok", <<>>)
    /\ UNCHANGED <<users, zones, pois, zone_assignments, now, requests, client>>

\* the rows the UPDATE ... WHERE id = task_id RETURNING gives back
completePoiTaskResult(task_id) ==
    IF task_id \notin DOMAIN poi_tasks THEN "TaskNotFound" ELSE "ok"

taskCompletionUpdate_KeepsFirstDate(row) ==
    [row EXCEPT !.status = "completed",
                !.completed_at = IF @ = NULL THEN now ELSE @]

taskCompletionUpdate(row) ==
    [row EXCEPT !.status = "completed", !.completed_at = now]

completePoiTask(task_id) ==
    LET res == completePoiTaskResult(task_id) IN
    /\ poi_tasks' =
          IF res = "ok"
          THEN [poi_tasks EXCEPT ![task_id] = taskCompletionUpdate(@)]
          ELSE poi_tasks
    /\ last' = Call("completePoiTask", task_id, 0, res, rowBefore(poi_tasks, task_id))
    /\ UNCHANGED <<users, zones, pois, zone_assignments, now, requests, client>>

(* --------------------------- lists of a user --------------------------- *)
\* the orders in which a select without ORDER BY may give the rows
ordersOf(ids) ==
    {seq \in [1..Cardinality(ids) -> ids] :
        \A j, k \in DOMAIN seq : j # k => seq[j] # seq[k]}

\* a variant that leaves the completed assignments out
assignmentsOfUser_ActiveOnly(userId) ==
    {i \in DOMAIN zone_assignments :
        /\ zone_assignments[i].zone_id \in DOMAIN zones
        /\ zone_assignments[i].user_id = userId
        /\ zone_assignments[i].status # "completed"}

\* the rows of zone_assignments joined to their zone WHERE user_id = userId
assignmentsOfUser(userId) ==
    {i \in DOMAIN zone_assignments :
        /\ zone_assignments[i].zone_id \in DOMAIN zones
        /\ zone_assignments[i].user_id = userId}

\* the object the handler makes of a row of the join
assignmentResult(id) ==
    [id |-> id,
     zone_id |-> zone_assignments[id].zone_id,
     user_id |-> zone_assignments[id].user_id,
     status |-> zone_assignments[id].status,
     progress_houses |-> zone_assignments[id].progress_houses,
     assigned_at |-> zone_assignments[id].assigned_at,
     completed_at |-> zone_assignments[id].completed_at]

\* A query: `a` keeps the user id and `was` the objects returned, in the
\* order returned.
getUserAssignments(userId) ==
    /\ \E order \in ordersOf(assignmentsOfUser(userId)) :
          last' = Call("getUserAssignments", userId, 0, "ok",
                       [j \in DOMAIN order |-> assignmentResult(order[j])])
    /\ UNCHANGED <<users, zones, pois, zone_assignments, poi_tasks, now,
                   requests, client>>

\* the rows of poi_tasks joined to their POI WHERE user_id = userId
tasksOfUser(userId) ==
    {t \in DOMAIN poi_tasks :
        /\ poi_tasks[t].poi_id \in DOMAIN pois
        /\ poi_tasks[t].user_id = userId}

\* the POI of the join; parseFloat gives the whole degrees of the column
poiResult(id) ==
    [id |-> id,
     name |-> pois[id].name,
     description |-> pois[id].description,
     latitude |-> pois[id].latitude,
     longitude |-> pois[id].longitude,
     poi_type |-> pois[id].poi_type,
     created_by |-> pois[id].created_by,
     created_at |-> pois[id].created_at,
     updated_at |-> pois[id].updated_at]

taskResult(id) ==
    [id |-> id,
     poi_id |-> poi_tasks[id].poi_id,
     user_id |-> poi_tasks[id].user_id,
     status |-> poi_tasks[id].status,
     assigned_at |-> poi_tasks[id].assigned_at,
     completed_at |-> poi_tasks[id].completed_at,
     poi |-> poiResult(poi_tasks[id].poi_id)]

getUserPoiTasks(userId) ==
    /\ \E order \in ordersOf(tasksOfUser(userId)) :
          last' = Call("getUserPoiTasks", userId, 0, "ok",
                       [j \in DOMAIN order |-> taskResult(order[j])])
    /\ UNCHANGED <<users, zones, pois, zone_assignments, poi_tasks, now,
                   requests, client>>

(* ------------------------------- zones --------------------------------- *)
\* variants of the validator a slip in the handler would give
validCoord_PairsOnly(coord) ==
    /\ coord.kind = "array"
    /\ Len(coord.items) = 2
    /\ coord.items[1].kind = "number"
    /\ coord.items[2].kind = "number"

\* the test the validator makes of one entry of a ring
validCoord(coord) ==
    /\ coord.kind = "array"
    /\ Len(coord.items) >= 2
    /\ coord.items[1].kind = "number"
    /\ coord.items[2].kind = "number"

validRing_ThreePoints(ring) ==
    /\ ring.kind = "array"
    /\ Len(ring.items) >= 3
    /\ \A c \in DOMAIN ring.items : validCoord(ring.items[c])

\* the test the validator makes of one element of `coordinates`
validRing(ring) ==
    /\ ring.kind = "array"
    /\ Len(ring.items) >= 4
    /\ \A c \in DOMAIN ring.items : validCoord(ring.items[c])

\* JSON.parse throwing, and parsed.type throwing on null, are caught and
\* give false
validateGeoJSONGeometry(geometry) ==
    IF ~geometry.json THEN FALSE
    ELSE LET parsed == geometry.parsed
             type == member(parsed, "type")
             coordinates == member(parsed, "coordinates")
         IN  IF parsed.kind = "null" THEN FALSE
             ELSE IF ~truthy(type) \/ ~truthy(coordinates) THEN FALSE
             ELSE IF type # JString("Polygon") THEN FALSE
             ELSE IF coordinates.kind # "array" \/ Len(coordinates.items) = 0 THEN FALSE
             ELSE \A r \in DOMAIN coordinates.items : validRing(coordinates.items[r])

createZoneResult_ValidatesFirst(input) ==
    IF ~validateGeoJSONGeometry(input.geometry) THEN "InvalidGeometry"
    ELSE IF input.created_by \notin DOMAIN users THEN "UserNotFound"
    ELSE IF users[input.created_by].role # "admin" THEN "NotAdmin"
    ELSE "ok"

createZoneResult(input) ==
    IF input.created_by \notin DOMAIN users THEN "UserNotFound"
    ELSE IF users[input.created_by].role # "admin" THEN "NotAdmin"
    ELSE IF ~validateGeoJSONGeometry(input.geometry) THEN "InvalidGeometry"
    ELSE "ok"

\* the inserted row: created_at and updated_at take the column default
newZone(input) ==
    [name |-> input.name,
     description |-> input.description,
     geometry |-> input.geometry,
     estimated_houses |-> input.estimated_houses,
     created_by |-> input.created_by,
     created_at |-> now, updated_at |-> now]

createZone(input) ==
    LET res == createZoneResult(input) IN
    /\ res = "ok" => Len(zones) < MaxZones
    /\ zones' = IF res = "ok" THEN Append(zones, newZone(input)) ELSE zones
    /\ last' = Call("createZone", input.created_by, input, res, <<>>)
    /\ UNCHANGED <<users, pois, zone_assignments, poi_tasks, now, requests,
                   client>>

\* The check updateZone makes of input.geometry, which it skips when the
\* input has no geometry and when the geometry is the empty string (falsy).
\* A TypeError (parsed is null) is thrown on as it is.
geometryCheck(input) ==
    IF ~provided(input.geometry) \/ input.geometry[1].empty THEN "ok"
    ELSE LET geometry == input.geometry[1]
             parsed == geometry.parsed
             type == member(parsed, "type")
             coordinates == member(parsed, "coordinates")
         IN  IF ~geometry.json THEN "InvalidJSON"
             ELSE IF parsed.kind = "null" THEN "TypeError"
             ELSE IF ~truthy(type) \/ type # JString("Polygon") \/ ~truthy(coordinates)
                  THEN "NotPolygon"
             ELSE IF coordinates.kind # "array" \/ Len(coordinates.items) = 0
                  THEN "InvalidCoordinates"
             ELSE "ok"

updateZoneResult_NoExistenceCheck(input) == geometryCheck(input)

updateZoneResult(input) ==
    IF input.id \notin DOMAIN zones THEN "ZoneNotFound"
    ELSE geometryCheck(input)

\* a variant that takes a description of null for a field not provided
zoneUpdate_NullKeepsDescription(row, input) ==
    [row EXCEPT
        !.updated_at = now,
        !.name = IF provided(input.name) THEN input.name[1] ELSE @,
        !.description = IF provided(input.description) /\ input.description[1] # <<>>
                        THEN input.description[1] ELSE @,
        !.geometry = IF provided(input.geometry) THEN input.geometry[1] ELSE @,
        !.estimated_houses =
            IF provided(input.estimated_houses) THEN input.estimated_houses[1] ELSE @]

\* updateData: updated_at, and every field the input provides
zoneUpdate(row, input) ==
    [row EXCEPT
        !.updated_at = now,
        !.name = IF provided(input.name) THEN input.name[1] ELSE @,
        !.description = IF provided(input.description) THEN input.description[1] ELSE @,
        !.geometry = IF provided(input.geometry) THEN input.geometry[1] ELSE @,
        !.estimated_houses =
            IF provided(input.estimated_houses) THEN input.estimated_houses[1] ELSE @]

\* The procedure is public and its context is empty: the handler is given the
\* input alone, whoever sends the request.  `sender` is the user the client
\* that sends it is logged in as.
updateZone(sender, input) ==
    LET res == updateZoneResult(input) IN
    /\ zones' = IF res = "ok" /\ input.id \in DOMAIN zones
                THEN [zones EXCEPT ![input.id] = zoneUpdate(@, input)]
                ELSE zones
    /\ last' = Call("updateZone", sender, input, res, rowBefore(zones, input.id))
    /\ UNCHANGED <<users, pois, zone_assignments, poi_tasks, now, requests,
                   client>>

(* -------------------------------- pois --------------------------------- *)
\* Latitudes and longitudes are whole degrees here: the text the handler
\* writes (toString) and the numeric(10,8) and numeric(11,8) columns keep
\* such a value as it is.
createPoiResult(input) ==
    IF input.created_by \notin DOMAIN users THEN "UserNotFound"
    ELSE IF users[input.created_by].role # "admin" THEN "NotAdmin"
    ELSE IF input.latitude < -90 \/ input.latitude > 90 THEN "InvalidLatitude"
    ELSE IF input.longitude < -180 \/ input.longitude > 180 THEN "InvalidLongitude"
    ELSE "ok"

newPoi(input) ==
    [name |-> input.name,
     description |-> input.description,
     latitude |-> input.latitude,
     longitude |-> input.longitude,
     poi_type |-> input.poi_type,
     created_by |-> input.created_by,
     created_at |-> now, updated_at |-> now]

createPoi(input) ==
    LET res == createPoiResult(input) IN
    /\ res = "ok" => Len(pois) < MaxPois
    /\ pois' = IF res = "ok" THEN Append(pois, newPoi(input)) ELSE pois
    /\ last' = Call("createPoi", input.created_by, input, res, <<>>)
    /\ UNCHANGED <<users, zones, zone_assignments, poi_tasks, now, requests,
                   client>>

updatePoiResult_NoLongitudeCheck(input) ==
    IF input.id \notin DOMAIN pois THEN "PoiNotFound"
    ELSE IF provided(input.latitude)
            /\ (input.latitude[1] < -90 \/ input.latitude[1] > 90) THEN "InvalidLatitude"
    ELSE "ok"

updatePoiResult(input) ==
    IF input.id \notin DOMAIN pois THEN "PoiNotFound"
    ELSE IF provided(input.latitude)
            /\ (input.latitude[1] < -90 \/ input.latitude[1] > 90) THEN "InvalidLatitude"
    ELSE IF provided(input.longitude)
            /\ (input.longitude[1] < -180 \/ input.longitude[1] > 180) THEN "InvalidLongitude"
    ELSE "ok"

\* updateData: updated_at, and every field the input provides
poiUpdate(row, input) ==
    [row EXCEPT
        !.updated_at = now,
        !.name = IF provided(input.name) THEN input.name[1] ELSE @,
        !.description = IF provided(input.description) THEN input.description[1] ELSE @,
        !.latitude = IF provided(input.latitude) THEN input.latitude[1] ELSE @,
        !.longitude = IF provided(input.longitude) THEN input.longitude[1] ELSE @,
        !.poi_type = IF provided(input.poi_type) THEN input.poi_type[1] ELSE @]

\* a public procedure as updateZone is: `sender` is not passed on
updatePoi(sender, input) ==
    LET res == updatePoiResult(input) IN
    /\ pois' = IF res = "ok" /\ input.id \in DOMAIN pois
               THEN [pois EXCEPT ![input.id] = poiUpdate(@, input)]
               ELSE pois
    /\ last' = Call("updatePoi", sender, input, res, rowBefore(pois, input.id))
    /\ UNCHANGED <<users, zones, zone_assignments, poi_tasks, now, requests,
                   client>>

(* ---------------------------- getNearbyPois ---------------------------- *)
\* the places of the model, as <<latitude, longitude>> in whole degrees; the
\* last is the place of the tests' billboard
Places == {<<0, 0>>, <<0, 1>>, <<0, -1>>, <<8, 0>>, <<40, -74>>}

\* acos is given a value above 1 and raises "input is out of range"
OutOfRange == -1

\* The values of the query's expression
\*   6371 * acos(cos(radians(lat)) * cos(radians(plat))
\*                 * cos(radians(plon) - radians(lon))
\*               + sin(radians(lat)) * sin(radians(plat)))
\* in double precision, every product and sum rounded as the store rounds it,
\* as <<lat, lon, plat, plon, distance>>.  The distance is in metres, rounded
\* up; between these places two distances are equal exactly when their metres
\* are.  From <<8, 0>> to <<8, 0>> the sum of the two products is
\* 1.0000000000000002; from <<40, -74>> to <<40, -74>> it is
\* 0.9999999999999999, whose acos times 6371 is 0.0000949 km.
DistanceRows ==
    {
     <<0, 0, 0, 0, 0>>, <<0, 0, 0, 1, 111195>>, <<0, 0, 0, -1, 111195>>,
     <<0, 0, 8, 0, 889560>>, <<0, 0, 40, -74, 8652102>>,
     <<0, 1, 0, 0, 111195>>, <<0, 1, 0, 1, 0>>, <<0, 1, 0, -1, 222390>>,
     <<0, 1, 8, 0, 896438>>, <<0, 1, 40, -74, 8735960>>,
     <<0, -1, 0, 0, 111195>>, <<0, -1, 0, 1, 222390>>, <<0, -1, 0, -1, 0>>,
     <<0, -1, 8, 0, 896438>>, <<0, -1, 40, -74, 8568426>>,
     <<8, 0, 0, 0, 889560>>, <<8, 0, 0, 1, 896438>>, <<8, 0, 0, -1, 896438>>,
     <<8, 0, 8, 0, OutOfRange>>, <<8, 0, 40, -74, 8076000>>,
     <<40, -74, 0, 0, 8652102>>, <<40, -74, 0, 1, 8735960>>, <<40, -74, 0, -1, 8568426>>,
     <<40, -74, 8, 0, 8076000>>, <<40, -74, 40, -74, 1>>}

distance_km(latitude, longitude, plat, plon) ==
    LET row == CHOOSE r \in DistanceRows :
                   /\ r[1] = latitude /\ r[2] = longitude
                   /\ r[3] = plat /\ r[4] = plon
    IN  row[5]

\* distance_km of the row with the given id
distanceOf(latitude, longitude, id) ==
    distance_km(latitude, longitude, pois[id].latitude, pois[id].longitude)

\* the rows WHERE distance_km <= radiusKm keeps
withinRadius(latitude, longitude, radiusKm) ==
    {id \in DOMAIN pois : distanceOf(latitude, longitude, id) <= radiusKm}

\* ORDER BY distance_km ASC: the orders of the rows in which no row comes
\* before a row nearer than itself.  Between rows at the same distance the
\* store gives no order.
orderedByDistance(rows, latitude, longitude) ==
    {seq \in [1..Cardinality(rows) -> rows] :
        /\ \A j, k \in DOMAIN seq : j # k => seq[j] # seq[k]
        /\ \A j, k \in DOMAIN seq :
              j < k => distanceOf(latitude, longitude, seq[j])
                          <= distanceOf(latitude, longitude, seq[k])}

\* the expression is computed for every row of pois: the query fails when it
\* fails for one of them
getNearbyPoisResult(latitude, longitude) ==
    IF \E id \in DOMAIN pois : distanceOf(latitude, longitude, id) = OutOfRange
    THEN "OutOfRange"
    ELSE "ok"

\* A query: `a` keeps the centre, `b` the radius and `was` the ids of the
\* rows returned, in the order returned.  The radius is in metres as the
\* distances are.
getNearbyPois(latitude, longitude, radiusKm) ==
    LET res == getNearbyPoisResult(latitude, longitude) IN
    /\ \E rows \in IF res = "ok"
                   THEN orderedByDistance(withinRadius(latitude, longitude, radiusKm),
                                          latitude, longitude)
                   ELSE {<<>>} :
          last' = Call("getNearbyPois", <<latitude, longitude>>, radiusKm, res, rows)
    /\ UNCHANGED <<users, zones, pois, zone_assignments, poi_tasks, now,
                   requests, client>>

(* -------------------------------- users -------------------------------- *)
\* the select of a user by email compares the texts as they are
usersWithEmail(email) == {i \in DOMAIN users : users[i].email = email}

\* The unique constraint of the email column asks of the insert what the
\* handler's select has asked before it.
createUserResult(input) ==
    IF usersWithEmail(toLowerCase(input.email)) # {} THEN "AlreadyExists" ELSE "ok"

\* a variant that stores the email as it was given
newUser_KeepsCase(input, salt) ==
    [email |-> input.email,
     password_hash |-> scrypt(input.password, salt),
     role |-> input.role,
     created_at |-> now, updated_at |-> now]

\* the inserted row; `salt` is what randomBytes(16) gave
newUser(input, salt) ==
    [email |-> toLowerCase(input.email),
     password_hash |-> scrypt(input.password, salt),
     role |-> input.role,
     created_at |-> now, updated_at |-> now]

createUser(input, salt) ==
    LET res == createUserResult(input) IN
    /\ res = "ok" => Len(users) < MaxUsers
    /\ users' = IF res = "ok" THEN Append(users, newUser(input, salt)) ELSE users
    /\ last' = Call("createUser", input, salt, res, <<>>)
    /\ UNCHANGED <<zones, pois, zone_assignments, poi_tasks, now, requests,
                   client>>

loginInput(email, password) == [email |-> email, password |-> password]

\* The login tests write their users into the table themselves, with the
\* SHA-256 digest of the password as password_hash.  The unique constraint
\* of the email column refuses a second row with the same text.
insertUser(email, password) ==
    /\ Len(users) < MaxUsers
    /\ usersWithEmail(email) = {}
    /\ users' = Append(users, [email |-> email,
                                password_hash |-> sha256(password),
                                role |-> "user",
                                created_at |-> now, updated_at |-> now])
    /\ last' = Call("insertUser", email, password, "ok", <<>>)
    /\ UNCHANGED <<zones, pois, zone_assignments, poi_tasks, now, requests,
                   client>>

\* the user the select by email gives first: the column is unique
userFound(email) == CHOOSE i \in usersWithEmail(email) : TRUE

\* null when no user has the email as it is given, and when the stored hash
\* is not the SHA-256 digest of the password
loginResult(input) ==
    IF usersWithEmail(input.email) = {} THEN "null"
    ELSE IF sha256(input.password) # users[userFound(input.email)].password_hash THEN "null"
    ELSE "ok"

\* the object login returns
userResult(id) ==
    [id |-> id,
     email |-> users[id].email,
     password_hash |-> users[id].password_hash,
     role |-> users[id].role,
     created_at |-> users[id].created_at,
     updated_at |-> users[id].updated_at]

\* `was` keeps the user returned, <<>> when login returns null
login(input) ==
    LET res == loginResult(input) IN
    /\ last' = Call("login", input, 0, res,
                    IF res = "ok" THEN <<userResult(userFound(input.email))>> ELSE <<>>)
    /\ UNCHANGED <<users, zones, pois, zone_assignments, poi_tasks, now,
                   requests, client>>

(* ------------------------------ the client ---------------------------- *)
\* The positions at which the word begins in the letters of an email, for
\* the emails and the words of the model.
positionsOf(letters, word) ==
    CASE letters = "admin@example.com" /\ word = "admin" -> {1}
      [] letters = "defaultuser@example.com" /\ word = "user" -> {8}
      [] OTHER -> {}

wordLength(word) == IF word = "admin" THEN 5 ELSE 4

\* String.prototype.includes: the word, which is in lower case, stands in
\* the email as it is written
includes(email, word) ==
    \E p \in positionsOf(email.letters, word) :
        \A k \in p..(p + wordLength(word) - 1) : k \notin email.capitals

\* the user the client makes up when the server has returned null
demoUser(email) ==
    [id |-> IF includes(email, "admin") THEN 1 ELSE 2,
     email |-> email,
     password_hash |-> plain("demo_hash"),
     role |-> IF includes(email, "admin") THEN "admin" ELSE "user",
     created_at |-> now, updated_at |-> now]

\* The form is shown while no user is logged in, and its fields and its
\* button are disabled while isLoading.  handleLogin up to its await:
\* setIsLoading(true), setError(null), and the call of the login procedure.
handleLogin(email, password) ==
    /\ client.currentUser = <<>>
    /\ ~client.isLoading
    /\ client' = [client EXCEPT !.isLoading = TRUE, !.error = <<>>,
                                !.pending = <<loginInput(email, password)>>]
    /\ UNCHANGED <<users, zones, pois, zone_assignments, poi_tasks, now, last,
                   requests>>

\* what handleLogin does with the value the call gave, finally included
afterLogin(res, user) ==
    [client EXCEPT
        !.currentUser =
            IF res = "ok" THEN user
            ELSE IF includes(client.pending[1].email, "admin")
                    \/ includes(client.pending[1].email, "user")
                 THEN <<demoUser(client.pending[1].email)>>
            ELSE @,
        !.error =
            IF res = "ok" THEN @
            ELSE IF includes(client.pending[1].email, "admin")
                    \/ includes(client.pending[1].email, "user")
                 THEN @
            ELSE <<"Identifiants invalides">>,
        !.isLoading = FALSE,
        !.pending = <<>>]

\* the server serves the login and handleLogin goes on with what it returns
handleLoginReturns ==
    /\ client.pending # <<>>
    /\ LET input == client.pending[1]
           res == loginResult(input)
           user == IF res = "ok" THEN <<userResult(userFound(input.email))>> ELSE <<>>
       IN  /\ last' = Call("login", input, 0, res, user)
           /\ client' = afterLogin(res, user)
    /\ UNCHANGED <<users, zones, pois, zone_assignments, poi_tasks, now, requests>>

\* the call throws (the server is not reached, or the handler throws):
\* catch and finally
handleLoginThrows ==
    /\ client.pending # <<>>
    /\ last' = Call("login", client.pending[1], 0, "Error", <<>>)
    /\ client' = [client EXCEPT !.error = <<"Erreur de connexion">>,
                                !.isLoading = FALSE,
                                !.pending = <<>>]
    /\ UNCHANGED <<users, zones, pois, zone_assignments, poi_tasks, now, requests>>

\* the Dashboard is shown while a user is logged in
handleLogout ==
    /\ client.currentUser # <<>>
    /\ client' = [client EXCEPT !.currentUser = <<>>, !.error = <<>>]
    /\ UNCHANGED <<users, zones, pois, zone_assignments, poi_tasks, now, last,
                   requests>>

(* ----------------- handlers served statement by statement -------------- *)
\* A handler awaits every statement it sends to the store, and the server
\* serves other requests meanwhile: each statement is one step, atomic in the
\* store, and the handlers open no transaction.  A request is known by its
\* handler, its arguments `a` and `b`, the statement it sends next (`pc`),
\* the row its select gave (`seen`) and, once it has returned, its outcome.
Request(op, a, b, pc) ==
    [op |-> op, a |-> a, b |-> b, pc |-> pc, seen |-> <<>>, res |-> "running"]

\* a request comes in
receive(op, a, b, pc) ==
    /\ Len(requests) < MaxRequests
    /\ requests' = Append(requests, Request(op, a, b, pc))
    /\ UNCHANGED <<users, zones, pois, zone_assignments, poi_tasks, now,
                   last, client>>

\* the request returns, or throws the error
returned(r, res) == [requests EXCEPT ![r].pc = "done", ![r].res = res]

\* request r, of the handler op, sends the statement pc next
sends(r, op, pc) ==
    /\ r \in DOMAIN requests
    /\ requests[r].op = op
    /\ requests[r].pc = pc

\* assignZone: the select of the zone, of the user, of the assigned and of
\* the in_progress assignments of the zone, then the insert
assignZoneSelectZone(r) ==
    /\ sends(r, "assignZone", "selectZone")
    /\ requests' = IF requests[r].a \notin DOMAIN zones
                    THEN returned(r, "ZoneNotFound")
                    ELSE [requests EXCEPT ![r].pc = "selectUser"]
    /\ UNCHANGED <<users, zones, pois, zone_assignments, poi_tasks, now,
                   last, client>>

assignZoneSelectUser(r) ==
    /\ sends(r, "assignZone", "selectUser")
    /\ requests' = IF requests[r].b \notin DOMAIN users
                    THEN returned(r, "UserNotFound")
                    ELSE [requests EXCEPT ![r].pc = "selectAssigned"]
    /\ UNCHANGED <<users, zones, pois, zone_assignments, poi_tasks, now,
                   last, client>>

assignZoneSelectAssigned(r) ==
    /\ sends(r, "assignZone", "selectAssigned")
    /\ requests' = IF assignmentsOf(requests[r].a, "assigned") # {}
                    THEN returned(r, "ZoneAlreadyAssigned")
                    ELSE [requests EXCEPT ![r].pc = "selectInProgress"]
    /\ UNCHANGED <<users, zones, pois, zone_assignments, poi_tasks, now,
                   last, client>>

assignZoneSelectInProgress(r) ==
    /\ sends(r, "assignZone", "selectInProgress")
    /\ requests' = IF assignmentsOf(requests[r].a, "in_progress") # {}
                    THEN returned(r, "ZoneInProgress")
                    ELSE [requests EXCEPT ![r].pc = "insert"]
    /\ UNCHANGED <<users, zones, pois, zone_assignments, poi_tasks, now,
                   last, client>>

\* a variant in which the store refuses a second assigned row for a zone, as
\* a unique index on the active assignments of a zone would
assignZoneInsert_OneAssignedPerZone(r) ==
    /\ sends(r, "assignZone", "insert")
    /\ Len(zone_assignments) < MaxAssignments
    /\ zone_assignments' =
          IF assignmentsOf(requests[r].a, "assigned") # {}
          THEN zone_assignments
          ELSE Append(zone_assignments, newAssignment(requests[r].a, requests[r].b))
    /\ requests' = returned(r, IF assignmentsOf(requests[r].a, "assigned") # {}
                               THEN "ZoneAlreadyAssigned" ELSE "ok")
    /\ UNCHANGED <<users, zones, pois, poi_tasks, now, last, client>>

\* the table has a primary key on id and foreign keys to zones and users,
\* and no constraint on the assignments of a zone
assignZoneInsert(r) ==
    /\ sends(r, "assignZone", "insert")
    /\ Len(zone_assignments) < MaxAssignments
    /\ zone_assignments' =
          Append(zone_assignments, newAssignment(requests[r].a, requests[r].b))
    /\ requests' = returned(r, "ok")
    /\ UNCHANGED <<users, zones, pois, poi_tasks, now, last, client>>

\* updateProgress: the select of the assignment, then the update with the
\* status computed from the row the select gave
updateProgressSelect(r) ==
    /\ sends(r, "updateProgress", "select")
    /\ requests' = IF requests[r].a \notin DOMAIN zone_assignments
                    THEN returned(r, "AssignmentNotFound")
                    ELSE [requests EXCEPT ![r].pc = "update",
                                          ![r].seen = <<zone_assignments[requests[r].a]>>]
    /\ UNCHANGED <<users, zones, pois, zone_assignments, poi_tasks, now,
                   last, client>>

updateProgressUpdate(r) ==
    /\ sends(r, "updateProgress", "update")
    /\ zone_assignments' =
          [zone_assignments EXCEPT
              ![requests[r].a].progress_houses = requests[r].b,
              ![requests[r].a].status = newStatus(requests[r].seen[1].status)]
    /\ requests' = returned(r, "ok")
    /\ UNCHANGED <<users, zones, pois, poi_tasks, now, last, client>>

\* completeZone: the select of the assignment and the test of the status it
\* gave, then the update
completeZoneSelect(r) ==
    /\ sends(r, "completeZone", "select")
    /\ requests' =
          IF requests[r].a \notin DOMAIN zone_assignments
          THEN returned(r, "AssignmentNotFound")
          ELSE IF zone_assignments[requests[r].a].status = "completed"
          THEN returned(r, "AlreadyCompleted")
          ELSE [requests EXCEPT ![r].pc = "update",
                                ![r].seen = <<zone_assignments[requests[r].a]>>]
    /\ UNCHANGED <<users, zones, pois, zone_assignments, poi_tasks, now,
                   last, client>>

completeZoneUpdate(r) ==
    /\ sends(r, "completeZone", "update")
    /\ zone_assignments' =
          [zone_assignments EXCEPT ![requests[r].a] = completionUpdate(@)]
    /\ requests' = returned(r, "ok")
    /\ UNCHANGED <<users, zones, pois, poi_tasks, now, last, client>>

(* -------------------------------- clock -------------------------------- *)
\* time passes between two requests
Tick ==
    /\ now < MaxTime
    /\ now' = now + 1
    /\ UNCHANGED <<users, zones, pois, zone_assignments, poi_tasks, last,
                   requests, client>>

\* the zone-assignment requests, for every zone and every user of the store
Next ==
    \/ \E zone_id \in DOMAIN zones, user_id \in DOMAIN users :
          assignZone(zone_id, user_id)
    \/ \E assignment_id \in 1..MaxAssignments : updateProgress(assignment_id, 1)
    \/ \E assignment_id \in 1..MaxAssignments : completeZone(assignment_id)
    \/ Tick

Spec == Init /\ [][Next]_vars

\* the zone-assignment requests with every progress count, for one zone and
\* one user
NextProgress ==
    \/ assignZone(1, 1)
    \/ \E assignment_id \in AssignmentIds, progress_houses \in 0..MaxProgress :
          updateProgress(assignment_id, progress_houses)
    \/ \E assignment_id \in AssignmentIds : completeZone(assignment_id)
    \/ Tick

SpecProgress == Init /\ [][NextProgress]_vars

\* the POI-task requests
NextTasks ==
    \/ \E poi_id \in DOMAIN pois, user_id \in DOMAIN users :
          \/ insertPoiTask(poi_id, user_id, "assigned", NULL)
          \/ \E completed_at \in 1..now :
                insertPoiTask(poi_id, user_id, "completed", completed_at)
    \/ \E task_id \in TaskIds : completePoiTask(task_id)
    \/ Tick

SpecTasks == Init /\ [][NextTasks]_vars

\* both lifecycles side by side, for one zone, one POI and one user
NextLifecycle ==
    \/ Len(zone_assignments) < MaxLifecycleRows /\ assignZone(1, 1)
    \/ \E assignment_id \in AssignmentIds : updateProgress(assignment_id, 1)
    \/ \E assignment_id \in AssignmentIds : completeZone(assignment_id)
    \/ Len(poi_tasks) < MaxLifecycleRows /\ insertPoiTask(1, 1, "assigned", NULL)
    \/ \E task_id \in TaskIds : completePoiTask(task_id)
    \/ Tick

SpecLifecycle == Init /\ [][NextLifecycle]_vars

\* an update that renames the record and provides no other field
renameZone(id) ==
    [id |-> id, name |-> <<"Updated Zone">>, description |-> <<>>,
     geometry |-> <<>>, estimated_houses |-> <<>>]

renamePoi(id) ==
    [id |-> id, name |-> <<"Updated POI">>, description |-> <<>>,
     latitude |-> <<>>, longitude |-> <<>>, poi_type |-> <<>>]

\* every request that names a record: the assignment and task requests with
\* ids that name a row and ids that name none, the updates of a zone and of a
\* POI with an id that names none
NextNotFound ==
    \/ \E zone_id \in {1, Len(zones) + 1}, user_id \in {1, Len(users) + 1} :
          /\ assignZoneResult(zone_id, user_id) = "ok"
                => Len(zone_assignments) < MaxLifecycleRows
          /\ assignZone(zone_id, user_id)
    \/ \E assignment_id \in AssignmentIds : updateProgress(assignment_id, 1)
    \/ \E assignment_id \in AssignmentIds : completeZone(assignment_id)
    \/ Len(poi_tasks) < MaxLifecycleRows /\ insertPoiTask(1, 1, "assigned", NULL)
    \/ \E task_id \in TaskIds : completePoiTask(task_id)
    \/ updateZone(1, renameZone(Len(zones) + 1))
    \/ updatePoi(1, renamePoi(Len(pois) + 1))
    \/ Tick

SpecNotFound == Init /\ [][NextNotFound]_vars

(* the geometry texts the requests carry *)
UnitSquare == <<<<0, 0>>, <<1, 0>>, <<1, 1>>, <<0, 1>>, <<0, 0>>>>
\* a closed ring, as the tests' validPolygon is
ClosedSquare == stringify(polygonOf(<<UnitSquare>>))
\* four points, the last not the first
OpenSquare == stringify(polygonOf(<<SubSeq(UnitSquare, 1, 4)>>))
\* three points, as the tests' invalidPolygon
Triangle == stringify(polygonOf(<<SubSeq(UnitSquare, 1, 3)>>))
\* a second ring of three points
ShortHole == stringify(polygonOf(<<UnitSquare, SubSeq(UnitSquare, 1, 3)>>))
\* {"type": "Point", "coordinates": [-74, 40]}
PointGeometry ==
    stringify(JObject(JString("Point"), JArray(<<JNumber(-74), JNumber(40)>>)))
\* {"invalid": "geometry"}
NoType == stringify(JObject(JUndefined, JUndefined))
\* {"type": "Polygon"}
NoCoordinates == stringify(JObject(JString("Polygon"), JUndefined))
\* {"type": "Polygon", "coordinates": []}
NoRings == stringify(JObject(JString("Polygon"), JArray(<<>>)))
\* {"type": "Polygon", "coordinates": "invalid"}
CoordinatesText == stringify(JObject(JString("Polygon"), JString("invalid")))
\* {"type": "Polygon", "coordinates": [5]}
RingNotArray == stringify(JObject(JString("Polygon"), JArray(<<JNumber(5)>>)))
\* the text null
NullText == stringify(JNull)

\* a polygon of one ring of four entries, each entry the given array
ringOfEntries(entry) ==
    stringify(JObject(JString("Polygon"),
                      JArray(<<JArray(<<entry, entry, entry, entry>>)>>)))
\* [0, 0, 10]: longitude, latitude and altitude
WithAltitude == ringOfEntries(JArray(<<JNumber(0), JNumber(0), JNumber(10)>>))
\* [0, 0, "top"]
WithLabel == ringOfEntries(JArray(<<JNumber(0), JNumber(0), JString("top")>>))
\* [0]
OneNumber == ringOfEntries(JArray(<<JNumber(0)>>))
\* ["0", "0"]
TextPair == ringOfEntries(JArray(<<JString("0"), JString("0")>>))
\* 0 in the place of an entry
EntryNotArray == ringOfEntries(JNumber(0))

Geometries ==
    {ClosedSquare, OpenSquare, Triangle, ShortHole, PointGeometry, NoType,
     NoCoordinates, NoRings, CoordinatesText, RingNotArray, NullText,
     WithAltitude, WithLabel, OneNumber, TextPair, EntryNotArray,
     MalformedText, EmptyText}

\* the geometries sent to updateZone
UpdateGeometries ==
    {ClosedSquare, Triangle, PointGeometry, NoCoordinates, CoordinatesText,
     MalformedText, EmptyText}

\* the tests' input of createZone, with the given geometry and creator
zoneInput(geometry, created_by) ==
    [name |-> "Downtown Zone",
     description |-> <<"Main downtown leaflet distribution area">>,
     geometry |-> geometry,
     estimated_houses |-> 500,
     created_by |-> created_by]

\* an update that provides a geometry and no other field
redrawZone(id, geometry) ==
    [id |-> id, name |-> <<>>, description |-> <<>>,
     geometry |-> <<geometry>>, estimated_houses |-> <<>>]

\* the inputs of createZone an admin's client sends: one for every geometry
ZoneDrawings == {zoneInput(geometry, 1) : geometry \in Geometries}

\* the zone requests an admin's client sends
NextZones ==
    \/ \E input \in ZoneDrawings : createZone(input)
    \/ \E id \in {1, Len(zones) + 1}, geometry \in UpdateGeometries :
          updateZone(1, redrawZone(id, geometry))
    \/ Tick

SpecZones == Init /\ [][NextZones]_vars

\* the tests' input of createPoi, at the given <<latitude, longitude>>
poiInput(at, created_by) ==
    [name |-> "Test Billboard",
     description |-> <<"A test billboard location">>,
     latitude |-> at[1], longitude |-> at[2],
     poi_type |-> "billboard",
     created_by |-> created_by]

\* an update that provides the given latitude and longitude (each <<>> when
\* not provided) and no other field
movePoi(id, latitude, longitude) ==
    [id |-> id, name |-> <<>>, description |-> <<>>,
     latitude |-> latitude, longitude |-> longitude, poi_type |-> <<>>]

\* The coordinates of the range tests, as <<latitude, longitude>>: the four
\* boundary values, a point inside, and a latitude and a longitude one degree
\* outside on either side.
Coordinates ==
    {<<90, 180>>, <<-90, -180>>, <<0, 0>>,
     <<91, 0>>, <<-91, 0>>, <<0, 181>>, <<0, -181>>}

\* the inputs of createPoi an admin's client sends: one for every coordinate
PoiPlacements == {poiInput(at, 1) : at \in Coordinates}

\* the POI requests an admin's client sends
NextPois ==
    \/ \E input \in PoiPlacements : createPoi(input)
    \/ \E id \in {1, Len(pois) + 1} :
          \/ \E at \in Coordinates : updatePoi(1, movePoi(id, <<at[1]>>, <<at[2]>>))
          \/ \E latitude \in {91, -91} : updatePoi(1, movePoi(id, <<latitude>>, <<>>))
          \/ \E longitude \in {181, -181} : updatePoi(1, movePoi(id, <<>>, <<longitude>>))
    \/ Tick

SpecPois == Init /\ [][NextPois]_vars

\* the inputs of createZone and of createPoi for every creator: the admin,
\* the field user, an id no user has
ZoneCreations ==
    {zoneInput(geometry, created_by) :
        geometry \in {ClosedSquare, Triangle, MalformedText}, created_by \in UserIds}

PoiCreations ==
    {poiInput(at, created_by) :
        at \in {<<90, 180>>, <<91, 0>>, <<0, 181>>}, created_by \in UserIds}

\* the creations of zones and of POIs
NextCreate ==
    \/ \E input \in ZoneCreations : createZone(input)
    \/ \E input \in PoiCreations : createPoi(input)
    \/ Tick

SpecCreate == Init /\ [][NextCreate]_vars

\* the updates of zones and of POIs, sent by the client of every user
NextUpdate ==
    \/ \E sender \in DOMAIN users, id \in DOMAIN zones \cup {Len(zones) + 1} :
          updateZone(sender, renameZone(id))
    \/ \E sender \in DOMAIN users, id \in DOMAIN pois \cup {Len(pois) + 1} :
          updatePoi(sender, renamePoi(id))
    \/ Tick

SpecUpdate == Init /\ [][NextUpdate]_vars

\* a POI an admin created at the given place
poiAt(place) ==
    [name |-> "Central Billboard",
     description |-> <<"Right in the center">>,
     latitude |-> place[1], longitude |-> place[2],
     poi_type |-> "billboard",
     created_by |-> 1, created_at |-> 1, updated_at |-> 1]

\* the store with any POIs at the places of the model
InitNearby ==
    /\ users = TestUsers
    /\ zones = TestZones
    /\ \E n \in 0..MaxPois : \E at \in [1..n -> Places] :
          pois = [id \in 1..n |-> poiAt(at[id])]
    /\ zone_assignments = <<>>
    /\ poi_tasks = <<>>
    /\ now = 1
    /\ last = Call("none", 0, 0, "ok", <<>>)
    /\ requests = <<>>
    /\ client = App

\* The radii asked for: 0, the default of 5 km, the distance of one degree
\* along the equator to the metre, and radii that take in the rows a degree
\* and eight degrees away.
Radii == {0, 5000, 111195, 200000, 900000}

NextNearby ==
    \E place \in Places, radiusKm \in Radii :
        getNearbyPois(place[1], place[2], radiusKm)

SpecNearby == InitNearby /\ [][NextNearby]_vars

\* The updates the tests send: of one field, of several, of none; a
\* description given as null.
ZoneUpdates ==
    {[renameZone(1) EXCEPT !.name = <<>>],
     renameZone(1),
     [renameZone(1) EXCEPT !.name = <<>>, !.description = << <<>> >>],
     [renameZone(1) EXCEPT !.name = <<>>, !.geometry = <<ClosedSquare>>,
                           !.estimated_houses = <<200>>]}

PoiUpdates ==
    {[renamePoi(1) EXCEPT !.name = <<>>],
     [renamePoi(1) EXCEPT !.poi_type = <<"wall">>, !.longitude = <<-75>>],
     [renamePoi(1) EXCEPT !.name = <<>>, !.description = << <<>> >>],
     [renamePoi(1) EXCEPT !.name = <<>>, !.latitude = <<41>>]}

\* updates of the first zone and of the first POI, next to a second zone and
\* a second POI
NextFrame ==
    \/ \E input \in ZoneUpdates : updateZone(1, input)
    \/ \E input \in PoiUpdates : updatePoi(1, input)
    \/ Len(pois) < 2 /\ createPoi(poiInput(<<0, 0>>, 1))
    \/ Tick

SpecFrame == Init /\ [][NextFrame]_vars

\* The emails the requests carry: the field user's, as stored and in capitals
\* (TEST@EXAMPLE.COM), a new one, in lower case and with two capitals
\* (New@Example.com), and another new one.
Emails ==
    {text("test@example.com"),
     capitalised("test@example.com", (1..4) \cup (6..12) \cup (14..16)),
     text("new@example.com"),
     capitalised("new@example.com", {1, 5}),
     text("defaultuser@example.com")}

Passwords == {"password123", "adminpass456"}

\* the salts randomBytes gives
Salts == {"5f2a", "c91e"}

userInput(email, password) == [email |-> email, password |-> password, role |-> "user"]

\* the inputs of createUser: every email with every password
UserInputs == {userInput(email, password) : email \in Emails, password \in Passwords}

\* the creations of users
NextUsers ==
    \/ \E input \in UserInputs, salt \in Salts : createUser(input, salt)
    \/ Tick

SpecUsers == Init /\ [][NextUsers]_vars

\* The assignments and the tasks of two users, and the lists asked for by
\* each of them and for an id no user has.  The admin is given the first zone
\* and the field user the second.
NextLists ==
    \/ \E user_id \in DOMAIN users : assignZone(user_id, user_id)
    \/ \E assignment_id \in DOMAIN zone_assignments : updateProgress(assignment_id, 1)
    \/ \E assignment_id \in DOMAIN zone_assignments : completeZone(assignment_id)
    \/ \E user_id \in DOMAIN users :
          Len(poi_tasks) < MaxLifecycleRows /\ insertPoiTask(1, user_id, "assigned", NULL)
    \/ \E task_id \in DOMAIN poi_tasks : completePoiTask(task_id)
    \/ \E userId \in UserIds : getUserAssignments(userId)
    \/ \E userId \in UserIds : getUserPoiTasks(userId)

SpecLists == Init /\ [][NextLists]_vars

\* requests to assign the first zone, to the admin and to the field user,
\* served statement by statement
NextAssignRace ==
    \/ \E user_id \in DOMAIN users : receive("assignZone", 1, user_id, "selectZone")
    \/ \E r \in DOMAIN requests :
          \/ assignZoneSelectZone(r)
          \/ assignZoneSelectUser(r)
          \/ assignZoneSelectAssigned(r)
          \/ assignZoneSelectInProgress(r)
          \/ assignZoneInsert(r)

SpecAssignRace == Init /\ [][NextAssignRace]_vars

\* The first zone is assigned, and assigned again once it is completed, by
\* requests served one at a time; the requests that record progress on an
\* assignment and that complete it are served statement by statement.
NextCompleteRace ==
    \/ Len(zone_assignments) < MaxLifecycleRows /\ assignZone(1, 1)
    \/ \E assignment_id \in DOMAIN zone_assignments :
          \/ receive("updateProgress", assignment_id, 1, "select")
          \/ receive("completeZone", assignment_id, 0, "select")
    \/ \E r \in DOMAIN requests :
          \/ updateProgressSelect(r)
          \/ updateProgressUpdate(r)
          \/ completeZoneSelect(r)
          \/ completeZoneUpdate(r)
    \/ Tick

SpecCompleteRace == Init /\ [][NextCompleteRace]_vars

\* the inputs of createUser for a new email, in lower case and with capitals
NewUserInputs ==
    {userInput(email, password) :
        email \in {text("new@example.com"), capitalised("new@example.com", {1, 5})},
        password \in Passwords}

\* the email of the user the login tests write
DefaultUserEmail == text("defaultuser@example.com")

\* the inputs of login: every email with every password
LoginInputs == {loginInput(email, password) : email \in Emails, password \in Passwords}

\* users created through createUser and users written by the login tests,
\* and the logins with their emails and passwords
NextLogin ==
    \/ \E input \in NewUserInputs, salt \in Salts : createUser(input, salt)
    \/ \E password \in Passwords : insertUser(DefaultUserEmail, password)
    \/ \E input \in LoginInputs : login(input)
    \/ Tick

SpecLogin == Init /\ [][NextLogin]_vars

\* the emails typed into the login form: those of the requests and the admin's
ClientEmails == Emails \cup {text("admin@example.com")}

\* the client's logins and logouts, with the users of the tests and a user
\* the login tests write
NextClient ==
    \/ \E password \in Passwords : insertUser(DefaultUserEmail, password)
    \/ \E email \in ClientEmails, password \in Passwords : handleLogin(email, password)
    \/ handleLoginReturns
    \/ handleLoginThrows
    \/ handleLogout
    \/ Tick

SpecClient == Init /\ [][NextClient]_vars

(* ======================================================================= *)
(* Properties                                                              *)
(* ======================================================================= *)

\* This step serves the request op(a, b): every handler leaves the clock alone
\* and records the request, and only the clock's step leaves `last` alone.
IsCall(op, a, b) ==
    /\ now' = now
    /\ last'.op = op
    /\ last'.a = a
    /\ last'.b = b

Active(row) == row.status \in {"assigned", "in_progress"}

ActiveOf(zone_id) ==
    {i \in DOMAIN zone_assignments :
        zone_assignments[i].zone_id = zone_id /\ Active(zone_assignments[i])}

RowsOf(zone_id) ==
    {i \in DOMAIN zone_assignments : zone_assignments[i].zone_id = zone_id}

\* C1: in every state reached through assignZone, updateProgress and
\* completeZone requests, a zone has at most one assignment whose status is
\* assigned or in_progress.
C1_AtMostOneActive ==
    \A zone_id \in DOMAIN zones : Cardinality(ActiveOf(zone_id)) <= 1

\* a zone with a completed assignment and an in_progress one, for which a
\* further assignZone has just been refused
C1_Witness ==
    \E zone_id \in DOMAIN zones :
        /\ last.op = "assignZone" /\ last.a = zone_id /\ last.res = "ZoneInProgress"
        /\ Cardinality(ActiveOf(zone_id)) = 1
        /\ \E i \in RowsOf(zone_id) : zone_assignments[i].status = "completed"

\* C2: when the zone and the user exist and the zone has no assigned or
\* in_progress assignment, assignZone(zone_id, user_id) succeeds and adds
\* exactly one row: that zone_id and user_id, status assigned,
\* progress_houses 0, completed_at null.
C2_AssignCreates ==
    [][\A zone_id \in DOMAIN zones, user_id \in DOMAIN users :
          (IsCall("assignZone", zone_id, user_id) /\ ActiveOf(zone_id) = {})
          => /\ last'.res = "ok"
             /\ Len(zone_assignments') = Len(zone_assignments) + 1
             /\ \A i \in DOMAIN zone_assignments :
                   zone_assignments'[i] = zone_assignments[i]
             /\ LET row == zone_assignments'[Len(zone_assignments')] IN
                   /\ row.zone_id = zone_id
                   /\ row.user_id = user_id
                   /\ row.status = "assigned"
                   /\ row.progress_houses = 0
                   /\ row.assigned_at = now
                   /\ row.completed_at = NULL]_vars

\* the first assignment of a zone has just been created
C2_Witness ==
    /\ last.op = "assignZone" /\ last.res = "ok"
    /\ RowsOf(last.a) = {Len(zone_assignments)}
    /\ zone_assignments[Len(zone_assignments)].user_id = last.b
    /\ zone_assignments[Len(zone_assignments)].status = "assigned"

\* C3: assignZone on a zone that has an assigned assignment fails with
\* ZoneAlreadyAssigned, on a zone that has an in_progress assignment with
\* ZoneInProgress, whoever the target user is (the holder included), and
\* zone_assignments is left as it was.
C3_AssignConflict ==
    [][\A zone_id \in DOMAIN zones, user_id \in DOMAIN users :
          IsCall("assignZone", zone_id, user_id)
          => /\ (\E i \in RowsOf(zone_id) : zone_assignments[i].status = "assigned")
                   => /\ last'.res = "ZoneAlreadyAssigned"
                      /\ zone_assignments' = zone_assignments
             /\ (\E i \in RowsOf(zone_id) : zone_assignments[i].status = "in_progress")
                   => /\ last'.res = "ZoneInProgress"
                      /\ zone_assignments' = zone_assignments]_vars

\* the holder of an assigned zone has just been refused the same zone, while
\* another zone is in progress
C3_Witness ==
    /\ last.op = "assignZone" /\ last.res = "ZoneAlreadyAssigned"
    /\ \E i \in RowsOf(last.a) :
          /\ zone_assignments[i].status = "assigned"
          /\ zone_assignments[i].user_id = last.b
    /\ \E j \in DOMAIN zone_assignments : zone_assignments[j].status = "in_progress"

\* C4: a zone that has assignments, all of them completed, can be assigned
\* again to any existing user, the one who completed it or another; the
\* completed assignments stay as they were.
C4_ReassignCompleted ==
    [][\A zone_id \in DOMAIN zones, user_id \in DOMAIN users :
          (/\ IsCall("assignZone", zone_id, user_id)
           /\ RowsOf(zone_id) # {}
           /\ \A i \in RowsOf(zone_id) : zone_assignments[i].status = "completed")
          => /\ last'.res = "ok"
             /\ zone_assignments'[Len(zone_assignments')].status = "assigned"
             /\ zone_assignments'[Len(zone_assignments')].zone_id = zone_id
             /\ \A i \in RowsOf(zone_id) :
                   /\ zone_assignments'[i] = zone_assignments[i]
                   /\ zone_assignments'[i].status = "completed"]_vars

\* a zone completed by a user has just been assigned to that same user again
C4_Witness ==
    /\ last.op = "assignZone" /\ last.res = "ok"
    /\ \E i \in RowsOf(last.a) :
          /\ i < Len(zone_assignments)
          /\ zone_assignments[i].status = "completed"
          /\ zone_assignments[i].user_id = last.b
    /\ zone_assignments[Len(zone_assignments)].zone_id = last.a
    /\ zone_assignments[Len(zone_assignments)].user_id = last.b
    /\ zone_assignments[Len(zone_assignments)].status = "assigned"

\* C5: updateProgress(assignment_id, n) on an existing assignment sets
\* progress_houses to n, be n larger than, equal to or smaller than the value
\* before; the status becomes in_progress if it was assigned and is otherwise
\* left as it was.
C5_ProgressSet ==
    [][\A id \in DOMAIN zone_assignments, n \in 0..MaxProgress :
          IsCall("updateProgress", id, n)
          => /\ last'.res = "ok"
             /\ zone_assignments'[id].progress_houses = n
             /\ zone_assignments'[id].status =
                   IF zone_assignments[id].status = "assigned"
                   THEN "in_progress"
                   ELSE zone_assignments[id].status]_vars

\* an assignment in progress has just had its progress lowered, and is still
\* in progress
C5_Witness ==
    /\ last.op = "updateProgress" /\ last.res = "ok"
    /\ last.was[1].status = "in_progress"
    /\ last.was[1].progress_houses > last.b
    /\ zone_assignments[last.a].progress_houses = last.b
    /\ zone_assignments[last.a].status = "in_progress"

\* C6: completeZone on an assignment that is assigned or in_progress sets its
\* status to completed and its completed_at to a timestamp (not null), and
\* leaves progress_houses, zone_id, user_id and assigned_at as they were.
C6_CompleteFrame ==
    [][\A id \in DOMAIN zone_assignments :
          (IsCall("completeZone", id, 0) /\ Active(zone_assignments[id]))
          => /\ last'.res = "ok"
             /\ zone_assignments'[id].status = "completed"
             /\ zone_assignments'[id].completed_at # NULL
             /\ zone_assignments'[id].completed_at = now
             /\ zone_assignments'[id].progress_houses = zone_assignments[id].progress_houses
             /\ zone_assignments'[id].zone_id = zone_assignments[id].zone_id
             /\ zone_assignments'[id].user_id = zone_assignments[id].user_id
             /\ zone_assignments'[id].assigned_at = zone_assignments[id].assigned_at]_vars

\* an assignment in progress with houses visited has just been completed, at
\* a later time than it was assigned
C6_Witness ==
    /\ last.op = "completeZone" /\ last.res = "ok"
    /\ last.was[1].status = "in_progress"
    /\ last.was[1].progress_houses > 0
    /\ zone_assignments[last.a].status = "completed"
    /\ zone_assignments[last.a].progress_houses = last.was[1].progress_houses
    /\ zone_assignments[last.a].completed_at > zone_assignments[last.a].assigned_at

\* C7: completeZone on a completed assignment fails with AlreadyCompleted and
\* leaves the assignment as it was, completed_at included; so a completeZone
\* that follows a successful completeZone of the same assignment fails.
C7_CompleteTwice ==
    [][\A id \in DOMAIN zone_assignments :
          IsCall("completeZone", id, 0)
          => /\ zone_assignments[id].status = "completed"
                   => /\ last'.res = "AlreadyCompleted"
                      /\ zone_assignments' = zone_assignments
             /\ (last.op = "completeZone" /\ last.a = id /\ last.res = "ok")
                   => last'.res = "AlreadyCompleted"]_vars

\* a second completeZone has just been refused, at a later time than the
\* first one completed the assignment
C7_Witness ==
    /\ last.op = "completeZone" /\ last.res = "AlreadyCompleted"
    /\ zone_assignments[last.a].status = "completed"
    /\ zone_assignments[last.a].completed_at < now
    /\ zone_assignments[last.a] = last.was[1]

\* C8: in every state reached through assignZone, updateProgress and
\* completeZone, completed_at of an assignment is non-null exactly when its
\* status is completed.
C8_CompletedAtIffCompleted ==
    \A i \in DOMAIN zone_assignments :
        (zone_assignments[i].completed_at # NULL)
            <=> (zone_assignments[i].status = "completed")

\* progress has just been recorded on a completed assignment, next to an
\* assignment in progress
C8_Witness ==
    /\ last.op = "updateProgress" /\ last.res = "ok"
    /\ zone_assignments[last.a].status = "completed"
    /\ zone_assignments[last.a].completed_at # NULL
    /\ \E j \in DOMAIN zone_assignments :
          /\ zone_assignments[j].status = "in_progress"
          /\ zone_assignments[j].completed_at = NULL

AssignmentRank(status) ==
    CASE status = "assigned" -> 1
      [] status = "in_progress" -> 2
      [] status = "completed" -> 3

TaskRank(status) ==
    CASE status = "assigned" -> 1
      [] status = "completed" -> 2

\* C9: the status of a zone assignment only moves forward along
\* assigned, in_progress, completed, and the status of a POI task only from
\* assigned to completed: no request takes a row back to an earlier status,
\* and a completed row stays completed.
C9_StatusForward ==
    [][/\ \A i \in DOMAIN zone_assignments :
             /\ i \in DOMAIN zone_assignments'
             /\ AssignmentRank(zone_assignments'[i].status)
                    >= AssignmentRank(zone_assignments[i].status)
       /\ \A t \in DOMAIN poi_tasks :
             /\ t \in DOMAIN poi_tasks'
             /\ TaskRank(poi_tasks'[t].status) >= TaskRank(poi_tasks[t].status)]_vars

\* progress has just been recorded on a completed assignment, which is still
\* completed, next to a task completed after it was assigned
C9_Witness ==
    /\ last.op = "updateProgress" /\ last.res = "ok"
    /\ last.was[1].status = "completed"
    /\ zone_assignments[last.a].status = "completed"
    /\ \E t \in DOMAIN poi_tasks :
          poi_tasks[t].status = "completed" /\ poi_tasks[t].completed_at > poi_tasks[t].assigned_at

\* C10: completePoiTask on an existing task succeeds whether the task was
\* assigned or completed, and leaves it completed with completed_at the
\* current time, which is not null and not earlier than the value before.
C10_TaskCompletion ==
    [][\A id \in DOMAIN poi_tasks :
          IsCall("completePoiTask", id, 0)
          => /\ last'.res = "ok"
             /\ poi_tasks'[id].status = "completed"
             /\ poi_tasks'[id].completed_at # NULL
             /\ poi_tasks'[id].completed_at = now
             /\ poi_tasks'[id].completed_at >= poi_tasks[id].completed_at]_vars

\* a completed task has just been completed again and carries a later
\* completed_at than before
C10_Witness ==
    /\ last.op = "completePoiTask" /\ last.res = "ok"
    /\ last.was[1].status = "completed"
    /\ poi_tasks[last.a].status = "completed"
    /\ poi_tasks[last.a].completed_at > last.was[1].completed_at

\* the five tables of the store
Store == <<users, zones, pois, zone_assignments, poi_tasks>>

\* C11: a request that names a record by an id no row has fails with the
\* not-found error of that record and leaves every table as it was: assignZone
\* with an unknown zone or an unknown user, updateProgress and completeZone
\* with an unknown assignment, completePoiTask with an unknown task,
\* updateZone and updatePoi with an unknown id.
C11_UnknownIdFails ==
    [][now' = now =>
        /\ (last'.op = "assignZone" /\ last'.a \notin DOMAIN zones)
              => last'.res = "ZoneNotFound" /\ Store' = Store
        /\ (last'.op = "assignZone" /\ last'.a \in DOMAIN zones
                /\ last'.b \notin DOMAIN users)
              => last'.res = "UserNotFound" /\ Store' = Store
        /\ (last'.op \in {"updateProgress", "completeZone"}
                /\ last'.a \notin DOMAIN zone_assignments)
              => last'.res = "AssignmentNotFound" /\ Store' = Store
        /\ (last'.op = "completePoiTask" /\ last'.a \notin DOMAIN poi_tasks)
              => last'.res = "TaskNotFound" /\ Store' = Store
        /\ (last'.op = "updateZone" /\ last'.b.id \notin DOMAIN zones)
              => last'.res = "ZoneNotFound" /\ Store' = Store
        /\ (last'.op = "updatePoi" /\ last'.b.id \notin DOMAIN pois)
              => last'.res = "PoiNotFound" /\ Store' = Store
    ]_vars

\* updateZone was refused for an id no zone has, in a store that holds an
\* assignment and a task
C11_Witness ==
    /\ last.op = "updateZone"
    /\ last.b.id \notin DOMAIN zones
    /\ last.res = "ZoneNotFound"
    /\ zone_assignments # <<>>
    /\ poi_tasks # <<>>

\* the rows the last query returned are the rows within its radius, each
\* once, none before a row nearer than itself
NearbyResultExact ==
    LET latitude == last.a[1]
        longitude == last.a[2]
        rows == last.was
    IN  /\ {rows[j] : j \in DOMAIN rows} = withinRadius(latitude, longitude, last.b)
        /\ Len(rows) = Cardinality(withinRadius(latitude, longitude, last.b))
        /\ \A j, k \in DOMAIN rows :
              j < k => distanceOf(latitude, longitude, rows[j])
                          <= distanceOf(latitude, longitude, rows[k])

\* what holds of every query that returns
NearbyResultWhenReturned ==
    (last.op = "getNearbyPois" /\ last.res = "ok") => NearbyResultExact

\* C12: getNearbyPois returns exactly the stored POIs whose distance from the
\* centre is at most the radius (the one at exactly the radius included),
\* each once, in non-decreasing order of distance.
C12_NearbyWithinRadius ==
    last.op = "getNearbyPois" => last.res = "ok" /\ NearbyResultExact

\* C13: POIs within the radius that are at the same distance from the centre
\* are returned in the order of their insertion into the store.
C13_TiesInInsertionOrder ==
    last.op = "getNearbyPois" =>
        \A j, k \in DOMAIN last.was :
            (/\ j < k
             /\ distanceOf(last.a[1], last.a[2], last.was[j])
                   = distanceOf(last.a[1], last.a[2], last.was[k]))
            => last.was[j] < last.was[k]

\* C14: getNearbyPois never fails, whatever the centre, the radius and the
\* POIs of the store (none, or one at the centre itself), and returns the
\* empty sequence when no POI is within the radius.
C14_NearbyNeverFails ==
    last.op = "getNearbyPois" =>
        /\ last.res = "ok"
        /\ withinRadius(last.a[1], last.a[2], last.b) = {} => last.was = <<>>


\* The text is JSON of type "Polygon" with at least one ring, every ring an
\* array of at least 4 entries.
IsPolygonOfRings(geometry) ==
    /\ geometry.json
    /\ geometry.parsed.kind = "object"
    /\ geometry.parsed.items[1] = JString("Polygon")
    /\ geometry.parsed.items[2].kind = "array"
    /\ Len(geometry.parsed.items[2].items) >= 1
    /\ \A r \in DOMAIN geometry.parsed.items[2].items :
          /\ geometry.parsed.items[2].items[r].kind = "array"
          /\ Len(geometry.parsed.items[2].items[r].items) >= 4

\* the entries of the rings of a polygon of rings
EntriesOf(geometry) ==
    LET rings == geometry.parsed.items[2].items IN
    UNION {{rings[r].items[c] : c \in DOMAIN rings[r].items} : r \in DOMAIN rings}

\* the entry is an array that begins with two numbers, a longitude and a
\* latitude
IsCoordinate(entry) ==
    /\ entry.kind = "array"
    /\ Len(entry.items) >= 2
    /\ entry.items[1].kind = "number"
    /\ entry.items[2].kind = "number"

\* this step serves createZone for a creator who is an admin
AdminCreatesZone ==
    /\ now' = now
    /\ last'.op = "createZone"
    /\ last'.a \in DOMAIN users
    /\ users[last'.a].role = "admin"

\* the step appends the zone of the request to zones
ZonePersisted ==
    /\ Len(zones') = Len(zones) + 1
    /\ SubSeq(zones', 1, Len(zones)) = zones
    /\ zones'[Len(zones')].geometry = last'.b.geometry
    /\ zones'[Len(zones')].name = last'.b.name
    /\ zones'[Len(zones')].created_by = last'.b.created_by

\* C15: createZone called by an admin persists the zone exactly when the
\* geometry text is JSON of type "Polygon" with a non-empty array of rings,
\* every ring an array of at least 4 coordinate entries of numbers; the ring
\* need not be closed.  In every other case it fails and no zone is persisted.
C15_CreateZoneValidates ==
    [][AdminCreatesZone =>
          IF /\ IsPolygonOfRings(last'.b.geometry)
             /\ \A entry \in EntriesOf(last'.b.geometry) : IsCoordinate(entry)
          THEN last'.res = "ok" /\ ZonePersisted
          ELSE last'.res = "InvalidGeometry" /\ zones' = zones
    ]_vars

\* an admin created a zone whose ring of four points is not closed
C15_Witness ==
    /\ last.op = "createZone"
    /\ last.res = "ok"
    /\ last.b.geometry = OpenSquare
    /\ zones[Len(zones)].geometry = OpenSquare

\* C16 as claimed: a geometry with a coordinate entry that is not of exactly
\* two elements (three numbers, say) is rejected and the zone not persisted.
C16_PairsOnly ==
    [][(/\ AdminCreatesZone
        /\ IsPolygonOfRings(last'.b.geometry)
        /\ \E entry \in EntriesOf(last'.b.geometry) :
              entry.kind = "array" /\ Len(entry.items) # 2)
       => last'.res = "InvalidGeometry" /\ zones' = zones
    ]_vars

\* C16 as amended: the validator asks of every coordinate entry of every ring
\* that it is an array of at least two elements of which the first two are
\* numbers.  An entry of fewer than two elements, or whose first or second
\* element is not a number, is rejected and the zone not persisted; entries
\* of two elements or more, three numbers say, are accepted.
C16_AtLeastPairs ==
    [][(AdminCreatesZone /\ IsPolygonOfRings(last'.b.geometry)) =>
          /\ (\E entry \in EntriesOf(last'.b.geometry) :
                 \/ entry.kind # "array"
                 \/ Len(entry.items) < 2
                 \/ entry.items[1].kind # "number"
                 \/ entry.items[2].kind # "number")
             => last'.res = "InvalidGeometry" /\ zones' = zones
          /\ (\A entry \in EntriesOf(last'.b.geometry) :
                 /\ entry.kind = "array"
                 /\ Len(entry.items) >= 2
                 /\ entry.items[1].kind = "number"
                 /\ entry.items[2].kind = "number")
             => last'.res = "ok" /\ ZonePersisted
    ]_vars

\* an admin created a zone whose coordinate entries are of three numbers
C16_Witness ==
    /\ last.op = "createZone"
    /\ last.res = "ok"
    /\ last.b.geometry = WithAltitude
    /\ zones[Len(zones)].geometry = WithAltitude

\* C17: after any createZone and updateZone calls the geometry of every zone
\* of the store is JSON of type "Polygon" with at least one ring and at least
\* 4 points in every ring: updateZone rejects what createZone rejects.
C17_StoredGeometryIsPolygon ==
    \A id \in DOMAIN zones : IsPolygonOfRings(zones[id].geometry)


\* C18: createZone and createPoi persist a record only for a creator who is a
\* user of the store with role admin.  For an id no user has they fail with
\* UserNotFound, for a user who is not an admin with NotAdmin, whether or not
\* the geometry or the coordinates are valid, and nothing is persisted.
C18_OnlyAdminsCreate ==
    [][(now' = now /\ last'.op \in {"createZone", "createPoi"}) =>
          /\ last'.a \notin DOMAIN users
                => last'.res = "UserNotFound" /\ Store' = Store
          /\ (last'.a \in DOMAIN users /\ users[last'.a].role # "admin")
                => last'.res = "NotAdmin" /\ Store' = Store
          /\ Store' # Store
                => last'.a \in DOMAIN users /\ users[last'.a].role = "admin"
    ]_vars

\* the field user was refused the creation of a zone whose geometry has a
\* ring of three points
C18_Witness ==
    /\ last.op = "createZone"
    /\ last.a \in DOMAIN users
    /\ users[last.a].role = "user"
    /\ last.b.geometry = Triangle
    /\ last.res = "NotAdmin"

\* C19: updateZone and updatePoi change a record only when the request is
\* made on behalf of an admin; a request from a user who is not an admin
\* leaves the record as it was.
C19_OnlyAdminsUpdate ==
    [][(/\ now' = now
        /\ last'.op \in {"updateZone", "updatePoi"}
        /\ users[last'.a].role # "admin")
       => zones' = zones /\ pois' = pois
    ]_vars

\* the latitude and the longitude are within the geographic bounds
InBounds(latitude, longitude) ==
    /\ -90 <= latitude /\ latitude <= 90
    /\ -180 <= longitude /\ longitude <= 180

\* the latitude and the longitude a createPoi or updatePoi request asks the
\* POI to have: those of the input, and for a field an update does not
\* provide, the one the POI has
AskedLatitude ==
    IF last'.op = "createPoi" THEN last'.b.latitude
    ELSE IF provided(last'.b.latitude) THEN last'.b.latitude[1]
    ELSE pois[last'.b.id].latitude

AskedLongitude ==
    IF last'.op = "createPoi" THEN last'.b.longitude
    ELSE IF provided(last'.b.longitude) THEN last'.b.longitude[1]
    ELSE pois[last'.b.id].longitude

\* C20: after any createPoi and updatePoi calls every POI of the store has
\* its latitude in [-90, 90] and its longitude in [-180, 180].  The boundary
\* values -90, 90, -180 and 180 are accepted; a call with a latitude or a
\* longitude outside the range fails and leaves the store as it was.
C20_PoiCoordinatesInBounds ==
    [][/\ \A id \in DOMAIN pois' : InBounds(pois'[id].latitude, pois'[id].longitude)
       /\ (/\ now' = now
           /\ \/ last'.op = "createPoi" /\ last'.a \in DOMAIN users
                    /\ users[last'.a].role = "admin"
              \/ last'.op = "updatePoi" /\ last'.b.id \in DOMAIN pois)
          => IF InBounds(AskedLatitude, AskedLongitude)
             THEN /\ last'.res = "ok"
                  /\ LET id == IF last'.op = "createPoi" THEN Len(pois') ELSE last'.b.id
                     IN  /\ pois'[id].latitude = AskedLatitude
                         /\ pois'[id].longitude = AskedLongitude
             ELSE /\ last'.res \in {"InvalidLatitude", "InvalidLongitude"}
                  /\ Store' = Store
    ]_vars

\* a POI was moved to latitude -90, longitude -180 after a POI was created at
\* latitude 90, longitude 180
C20_Witness ==
    /\ last.op = "updatePoi"
    /\ last.res = "ok"
    /\ pois[1].latitude = -90
    /\ pois[1].longitude = -180
    /\ Len(pois) = 2
    /\ pois[2].latitude = 90
    /\ pois[2].longitude = 180


\* the row is the row before with the fields the input provides set to the
\* values it gives them and updated_at to the time of the request
FieldsOf(input, rowAfter, row, fields) ==
    /\ DOMAIN rowAfter = DOMAIN row
    /\ \A f \in fields :
          rowAfter[f] = IF provided(input[f]) THEN input[f][1] ELSE row[f]
    /\ rowAfter.updated_at = now
    /\ rowAfter.created_by = row.created_by
    /\ rowAfter.created_at = row.created_at

\* every row but the one with the given id is as it was
OthersKept(tableAfter, table, id) ==
    /\ DOMAIN tableAfter = DOMAIN table
    /\ \A j \in DOMAIN table : j # id => tableAfter[j] = table[j]

\* C21: a successful updateZone or updatePoi sets the fields the input
\* provides to the values given (a description given as null becomes null)
\* and updated_at to the time of the request; the fields the input does not
\* provide, created_by and created_at keep their values, the record stays
\* under its id, and no other zone or POI and no other table changes.
C21_UpdateFrame ==
    [][(now' = now /\ last'.res = "ok") =>
          /\ last'.op = "updateZone" =>
                /\ FieldsOf(last'.b, zones'[last'.b.id], zones[last'.b.id],
                            {"name", "description", "geometry", "estimated_houses"})
                /\ OthersKept(zones', zones, last'.b.id)
                /\ UNCHANGED <<users, pois, zone_assignments, poi_tasks>>
          /\ last'.op = "updatePoi" =>
                /\ FieldsOf(last'.b, pois'[last'.b.id], pois[last'.b.id],
                            {"name", "description", "latitude", "longitude", "poi_type"})
                /\ OthersKept(pois', pois, last'.b.id)
                /\ UNCHANGED <<users, zones, zone_assignments, poi_tasks>>
    ]_vars

\* a zone that had a description was given the description null and nothing
\* else, at a later time than it was created: its description is null, its
\* name and its geometry are the ones it had
C21_Witness ==
    /\ last.op = "updateZone"
    /\ last.res = "ok"
    /\ last.b.description = << <<>> >>
    /\ ~provided(last.b.name)
    /\ ~provided(last.b.geometry)
    /\ last.was[1].description # <<>>
    /\ zones[last.b.id].description = <<>>
    /\ zones[last.b.id].name = last.was[1].name
    /\ zones[last.b.id].geometry = last.was[1].geometry
    /\ zones[last.b.id].updated_at > zones[last.b.id].created_at
    /\ Len(pois) = 2

\* the distance the last query computed for the row, and the distance the
\* expression gives from the row's place to the centre of the query
DistanceFromCentre(id) == distanceOf(last.a[1], last.a[2], id)

DistanceToCentre(id) ==
    distance_km(pois[id].latitude, pois[id].longitude, last.a[1], last.a[2])

\* the row is at the centre of the last query
AtCentre(id) ==
    pois[id].latitude = last.a[1] /\ pois[id].longitude = last.a[2]

\* what holds of the distance: it is the same in both directions, and where
\* it has a value the value is not negative
DistanceSymmetric ==
    last.op = "getNearbyPois" =>
        \A id \in DOMAIN pois :
            /\ DistanceFromCentre(id) = DistanceToCentre(id)
            /\ DistanceFromCentre(id) # OutOfRange => DistanceFromCentre(id) >= 0

SameIgnoringCase(email, other) == email.letters = other.letters

\* no two users of the store have the same email, the case left aside
EmailsDiffer(table) ==
    \A i, j \in DOMAIN table :
        i # j => ~SameIgnoringCase(table[i].email, table[j].email)

\* C23: createUser with an email that a user of the store has, the case of
\* the letters left aside, fails with AlreadyExists and adds no user;
\* otherwise it adds one user whose email is the given one in lower case.
\* So after any createUser calls no two users have the same email, the case
\* left aside.
C23_EmailsUniqueIgnoringCase ==
    [][(now' = now /\ last'.op = "createUser") =>
          /\ EmailsDiffer(users')
          /\ IF \E i \in DOMAIN users : SameIgnoringCase(users[i].email, last'.a.email)
             THEN last'.res = "AlreadyExists" /\ Store' = Store
             ELSE /\ last'.res = "ok"
                  /\ Len(users') = Len(users) + 1
                  /\ SubSeq(users', 1, Len(users)) = users
                  /\ users'[Len(users')].email.letters = last'.a.email.letters
                  /\ users'[Len(users')].email.capitals = {}
    ]_vars

\* a user was created with an email written with capitals, which is stored
\* in lower case, and the same email in lower case has just been refused
C23_Witness ==
    /\ last.op = "createUser"
    /\ last.res = "AlreadyExists"
    /\ last.a.email = text("new@example.com")
    /\ Len(users) = Len(TestUsers) + 1
    /\ users[Len(users)].email = text("new@example.com")
    /\ users[Len(users)].password_hash.scheme = "scrypt"

\* the list returned has each of the given objects once and nothing else
ListsExactly(list, objects) ==
    /\ {list[j] : j \in DOMAIN list} = objects
    /\ Len(list) = Cardinality(objects)

\* C24: getUserAssignments(userId) returns the zone assignments whose
\* user_id is userId, each once, whatever their status, with the values the
\* store holds, and getUserPoiTasks(userId) the POI tasks whose user_id is
\* userId; no record of another user is returned, and for a user without
\* records or an id no user has the list is empty and the call succeeds.
C24_ListsOfUser ==
    /\ last.op = "getUserAssignments" =>
          /\ last.res = "ok"
          /\ ListsExactly(last.was,
                 {[id |-> i,
                   zone_id |-> zone_assignments[i].zone_id,
                   user_id |-> zone_assignments[i].user_id,
                   status |-> zone_assignments[i].status,
                   progress_houses |-> zone_assignments[i].progress_houses,
                   assigned_at |-> zone_assignments[i].assigned_at,
                   completed_at |-> zone_assignments[i].completed_at] :
                     i \in {k \in DOMAIN zone_assignments :
                               zone_assignments[k].user_id = last.a}})
          /\ \A j \in DOMAIN last.was : last.was[j].user_id = last.a
          /\ (\A k \in DOMAIN zone_assignments : zone_assignments[k].user_id # last.a)
                => last.was = <<>>
    /\ last.op = "getUserPoiTasks" =>
          /\ last.res = "ok"
          /\ {[f \in {"id", "poi_id", "user_id", "status", "assigned_at", "completed_at"}
                  |-> last.was[j][f]] : j \in DOMAIN last.was}
                = {[f \in {"id", "poi_id", "user_id", "status", "assigned_at", "completed_at"}
                      |-> IF f = "id" THEN t ELSE poi_tasks[t][f]] :
                         t \in {k \in DOMAIN poi_tasks : poi_tasks[k].user_id = last.a}}
          /\ Len(last.was)
                = Cardinality({k \in DOMAIN poi_tasks : poi_tasks[k].user_id = last.a})
          /\ \A j \in DOMAIN last.was : last.was[j].user_id = last.a
          /\ (\A k \in DOMAIN poi_tasks : poi_tasks[k].user_id # last.a)
                => last.was = <<>>

\* the list of a user's assignments was asked for and holds the one
\* assignment of that user, which is completed, while another assignment
\* belongs to another user
C24_Witness ==
    /\ last.op = "getUserAssignments"
    /\ Len(last.was) = 1
    /\ last.was[1].status = "completed"
    /\ last.was[1].user_id = last.a
    /\ \E k \in DOMAIN zone_assignments : zone_assignments[k].user_id # last.a
    /\ poi_tasks # <<>>

\* the requests to assign the zone that have passed both status checks and
\* have not yet inserted
ReadyToInsert(zone_id) ==
    {r \in DOMAIN requests :
        /\ requests[r].op = "assignZone"
        /\ requests[r].a = zone_id
        /\ requests[r].pc = "insert"}

\* C25: the exclusivity check of assignZone and its insert are separate
\* statements.  A request that has passed both status checks inserts its
\* assignment and succeeds whatever the table holds by then: when two
\* requests for the same zone have both passed the checks before either
\* inserts, the insert of the second finds the assigned row of the first
\* and still adds another assigned row for the zone.
C25_CheckThenInsertRace ==
    [][\A r \in DOMAIN requests :
          (requests[r].op = "assignZone" /\ requests[r].pc = "insert"
              /\ requests'[r].pc # "insert")
          => /\ requests'[r].res = "ok"
             /\ zone_assignments' =
                   Append(zone_assignments, newAssignment(requests[r].a, requests[r].b))
             /\ zone_assignments'[Len(zone_assignments')].status = "assigned"
             /\ (\E q \in DOMAIN requests :
                    /\ q # r
                    /\ requests[q].op = "assignZone"
                    /\ requests[q].a = requests[r].a
                    /\ requests[q].res = "ok"
                    /\ assignmentsOf(requests[r].a, "assigned") # {})
                => Cardinality({i \in DOMAIN zone_assignments' :
                                  /\ zone_assignments'[i].zone_id = requests[r].a
                                  /\ zone_assignments'[i].status = "assigned"}) >= 2
    ]_vars

\* two requests for the same zone, for two users, have both succeeded and
\* the zone has two assignments in status assigned
C25_Witness ==
    \E r, q \in DOMAIN requests :
        /\ r # q
        /\ requests[r].op = "assignZone" /\ requests[q].op = "assignZone"
        /\ requests[r].a = requests[q].a
        /\ requests[r].b # requests[q].b
        /\ requests[r].res = "ok" /\ requests[q].res = "ok"
        /\ Cardinality(assignmentsOf(requests[r].a, "assigned")) = 2

\* C26: an assignment that completeZone has completed stays completed,
\* however the statements of an updateProgress request on it fall between
\* those of the completeZone request: no step takes it back to in_progress.
C26_CompletedStaysCompleted ==
    [][\A i \in DOMAIN zone_assignments :
          zone_assignments[i].status = "completed"
              => zone_assignments'[i].status = "completed"]_vars

\* C27: of the completeZone requests for one assignment at most one
\* succeeds, also when they are served at the same time; the others fail
\* with AlreadyCompleted.
C27_OneCompletionSucceeds ==
    \A i \in DOMAIN zone_assignments :
        /\ Cardinality({r \in DOMAIN requests :
                           /\ requests[r].op = "completeZone"
                           /\ requests[r].a = i
                           /\ requests[r].res = "ok"}) <= 1
        /\ \A r \in DOMAIN requests :
              (/\ requests[r].op = "completeZone"
               /\ requests[r].a = i
               /\ requests[r].pc = "done"
               /\ \E q \in DOMAIN requests :
                     /\ q # r
                     /\ requests[q].op = "completeZone"
                     /\ requests[q].a = i
                     /\ requests[q].res = "ok")
              => requests[r].res \in {"ok", "AlreadyCompleted"}

\* the two rows agree on every column but the given ones
SameBut(rowAfter, row, columns) ==
    /\ DOMAIN rowAfter = DOMAIN row
    /\ \A c \in DOMAIN row \ columns : rowAfter[c] = row[c]

\* C28: the assignment requests touch nothing but the assignment they are
\* about.  A successful assignZone adds one row and changes none; a successful
\* updateProgress changes progress_houses and status of the row it names and
\* nothing else; a successful completeZone changes status and completed_at of
\* the row it names and nothing else; a request that fails changes nothing;
\* and none of them changes a user, a zone, a POI or a POI task.  A user who
\* holds an active assignment is given another zone that is free.
C28_AssignmentsIndependent ==
    [][(now' = now /\ last'.op \in {"assignZone", "updateProgress", "completeZone"}) =>
          /\ UNCHANGED <<users, zones, pois, poi_tasks>>
          /\ last'.res # "ok" => zone_assignments' = zone_assignments
          /\ (last'.op = "assignZone" /\ last'.res = "ok") =>
                /\ Len(zone_assignments') = Len(zone_assignments) + 1
                /\ SubSeq(zone_assignments', 1, Len(zone_assignments)) = zone_assignments
          /\ (last'.op = "assignZone" /\ last'.a \in DOMAIN zones
                  /\ last'.b \in DOMAIN users /\ ActiveOf(last'.a) = {})
                => last'.res = "ok"
          /\ (last'.op = "updateProgress" /\ last'.res = "ok") =>
                /\ OthersKept(zone_assignments', zone_assignments, last'.a)
                /\ SameBut(zone_assignments'[last'.a], zone_assignments[last'.a],
                           {"progress_houses", "status"})
          /\ (last'.op = "completeZone" /\ last'.res = "ok") =>
                /\ OthersKept(zone_assignments', zone_assignments, last'.a)
                /\ SameBut(zone_assignments'[last'.a], zone_assignments[last'.a],
                           {"status", "completed_at"})
    ]_vars

\* a user who holds an assignment in progress for one zone has just been
\* given another zone, and holds two active assignments
C28_Witness ==
    /\ last.op = "assignZone"
    /\ last.res = "ok"
    /\ \E i, j \in DOMAIN zone_assignments :
          /\ zone_assignments[i].user_id = last.b
          /\ zone_assignments[j].user_id = last.b
          /\ zone_assignments[i].zone_id # zone_assignments[j].zone_id
          /\ zone_assignments[i].status = "in_progress"
          /\ zone_assignments[j].status = "assigned"
          /\ j = Len(zone_assignments)

\* this step serves a login that follows the successful createUser of the
\* same email
LoginAfterCreateUser ==
    /\ last.op = "createUser"
    /\ last.res = "ok"
    /\ now' = now
    /\ last'.op = "login"
    /\ last'.a.email = last.a.email

\* C29: after createUser(email, password) has succeeded, login with that
\* email and that password returns the user created, and login with that
\* email and another password returns null.
C29_CreatedUserLogsIn ==
    [][LoginAfterCreateUser =>
          IF last'.a.password = last.a.password
          THEN /\ last'.res = "ok"
               /\ last'.was = <<userResult(Len(users))>>
          ELSE last'.res = "null"
    ]_vars

\* what holds of login: it returns a user exactly when a stored user has
\* the email as given and the SHA-256 digest of the password as hash
LoginBySha256 ==
    last.op = "login" =>
        (last.res = "ok") <=>
            \E i \in DOMAIN users :
                /\ users[i].email = last.a.email
                /\ users[i].password_hash = sha256(last.a.password)

\* this step ends a login attempt of the client
LoginAttemptEnds == client.pending # <<>> /\ client'.pending = <<>>

\* C30: the client is logged in only as the user a successful login of the
\* server returned.  When the login returns null or throws, currentUser
\* stays null and an error is shown; when a login attempt has ended
\* isLoading is false.
C30_LoggedInOnlyByServer ==
    [][/\ LoginAttemptEnds =>
             /\ ~client'.isLoading
             /\ IF last'.res = "ok"
                THEN client'.currentUser = last'.was
                ELSE client'.currentUser = <<>> /\ client'.error # <<>>
       /\ (client'.currentUser # <<>> /\ client'.currentUser # client.currentUser)
             => (LoginAttemptEnds /\ last'.res = "ok")
    ]_vars

\* what holds of the client: when a login attempt has ended isLoading is
\* false, and after a login that returned a user the client is logged in as
\* that user
LoginAttemptSettles ==
    [][LoginAttemptEnds =>
          /\ ~client'.isLoading
          /\ last'.res = "ok" => client'.currentUser = last'.was
          /\ last'.res = "Error" =>
                client'.currentUser = <<>> /\ client'.error # <<>>
    ]_vars

====
